---- MODULE Spec2Model ----
(***************************************************************************)
(* A model of oop_p2.py: the Card value object (equality, ordering), the   *)
(* fair_deck decorator and the Deck (construction, cards accessor,         *)
(* shuffle, draw, add_card, len, indexing and the iterator protocol).      *)
(***************************************************************************)
EXTENDS Integers, Sequences, FiniteSets, TLC

(***************************************************************************)
(* Bound of the model: a deck never grows beyond MaxExtra cards more than  *)
(* it was built with.  The deck of the model is built over the first two   *)
(* suits and the first two ranks of the enumerations (DeckSuits and        *)
(* DeckRanks below), four cards where the program builds fifty-two.        *)
(***************************************************************************)
MaxExtra == 1

(***************************************************************************)
(* class CardSuit(Enum), class CardRank(Enum): the members' values.        *)
(***************************************************************************)
CLUBS == 1
DIAMONDS == 2
HEARTS == 3
SPADES == 4

TWO == 2
THREE == 3
FOUR == 4
FIVE == 5
SIX == 6
SEVEN == 7
EIGHT == 8
NINE == 9
TEN == 10
JACK == 11
QUEEN == 12
KING == 13
ACE == 14

\* Iterating an Enum class yields its members in definition order.
CardSuit == <<CLUBS, DIAMONDS, HEARTS, SPADES>>
CardRank == <<TWO, THREE, FOUR, FIVE, SIX, SEVEN, EIGHT, NINE, TEN, JACK, QUEEN, KING, ACE>>

\* The enumerations the deck of the model is built over.
DeckSuits == SubSeq(CardSuit, 1, 2)
DeckRanks == SubSeq(CardRank, 1, 2)

Range(s) == {s[i] : i \in 1..Len(s)}

(***************************************************************************)
(* class Card                                                              *)
(***************************************************************************)
Card(suit, rank) == [_suit |-> suit, _rank |-> rank]

AllCards == {Card(s, r) : s \in Range(CardSuit), r \in Range(CardRank)}
DeckCards == {Card(s, r) : s \in Range(DeckSuits), r \in Range(DeckRanks)}

\* Python's comparison of two 2-tuples of integers.
TupleLt(x, y) == x[1] < y[1] \/ (x[1] = y[1] /\ x[2] < y[2])
TupleGt(x, y) == x[1] > y[1] \/ (x[1] = y[1] /\ x[2] > y[2])

Card__eq__(self, other) == self._rank = other._rank /\ self._suit = other._suit

\* Card.__lt__ with the key's parts swapped: the suit first.
Card__lt__suit_first(self, other) ==
    TupleLt(<<self._suit, self._rank>>, <<other._suit, other._rank>>)

Card__lt__(self, other) == TupleLt(<<self._rank, self._suit>>, <<other._rank, other._suit>>)

Card__gt__(self, other) == TupleGt(<<self._rank, self._suit>>, <<other._rank, other._suit>>)

(***************************************************************************)
(* Python values the model passes around: a list is a sequence of cards,   *)
(* None is NoneValue.  len(set(x)) counts the elements of x that equal no  *)
(* earlier element (Card.__hash__ agrees with Card.__eq__).                *)
(***************************************************************************)
NoneValue == [type |-> "NoneType", items |-> <<>>]
ListValue(x) == [type |-> "list", items |-> x]

LenOfSet(x) == Cardinality({i \in 1..Len(x) : \A j \in 1..(i - 1) : ~Card__eq__(x[j], x[i])})

\* def fair_deck(func): what wrapper does with func's result.
fair_deck(result) ==
    IF result.type = "list" /\ Len(result.items) # LenOfSet(result.items)
    THEN "DeckCheatingError"
    ELSE "none"

\* The comprehension with its loops swapped: for r in CardRank for s in CardSuit.
Comprehension_rank_major(suits, ranks) ==
    [k \in 1..(Len(suits) * Len(ranks)) |->
        Card(suits[((k - 1) % Len(suits)) + 1], ranks[((k - 1) \div Len(suits)) + 1])]

\* [Card(s, r) for s in CardSuit for r in CardRank]
Comprehension(suits, ranks) ==
    [k \in 1..(Len(suits) * Len(ranks)) |->
        Card(suits[((k - 1) \div Len(ranks)) + 1], ranks[((k - 1) % Len(ranks)) + 1])]

StandardDeck == Comprehension(DeckSuits, DeckRanks)

\* random.shuffle(x): every rearrangement of x is a possible outcome.
random_shuffle(x) == {[i \in 1..Len(x) |-> x[p[i]]] : p \in Permutations(1..Len(x))}

\* list.copy(): a new list object dst with the items of src.
ListCopy(h, src, dst) == [h EXCEPT ![dst] = h[src]]

\* list[index] for an integer index: the position it reads, 0 when IndexError.
ListPos(x, index) ==
    IF 0 <= index /\ index < Len(x) THEN index + 1
    ELSE IF index < 0 /\ 0 - Len(x) <= index THEN Len(x) + index + 1
    ELSE 0

MaxLen == Len(StandardDeck) + MaxExtra
IndexArgs == (0 - MaxLen - 1)..(MaxLen + 1)

DeckList == "deck_list"
CopyList == "copy_list"

(***************************************************************************)
(* class Deck: each method as a function of the object's fields.  x is the *)
(* content of the list self._cards, index the field self._index; ret holds *)
(* the returned card (<<>> for None), exc the exception raised.            *)
(***************************************************************************)
\* def __init__(self, shuffle=True): the lists self._cards may hold afterwards.
Deck__init__(shuffle) ==
    IF shuffle THEN random_shuffle(StandardDeck) ELSE {StandardDeck}

\* The accessor without the copy: return self._cards
Deck_cards_no_copy(h, self_cards) ==
    [heap |-> h, ref |-> self_cards, exc |-> fair_deck(ListValue(h[self_cards]))]

\* @property @fair_deck def cards(self): return self._cards.copy()
Deck_cards(h, self_cards) ==
    LET copied == ListCopy(h, self_cards, CopyList)
    IN [heap |-> copied, ref |-> CopyList,
        exc |-> fair_deck(ListValue(copied[CopyList]))]

\* def shuffle(self): random.shuffle(self._cards)
Deck_shuffle(x) == random_shuffle(x)

\* draw with pop() for pop(0): the card at the back.
Deck_draw_pop_back(x) ==
    IF x # <<>>
    THEN [list |-> SubSeq(x, 1, Len(x) - 1), ret |-> <<x[Len(x)]>>]
    ELSE [list |-> x, ret |-> <<>>]

\* def draw(self): self._cards.pop(0) if self._cards else None
Deck_draw(x) ==
    IF x # <<>>
    THEN [list |-> Tail(x), ret |-> <<Head(x)>>]
    ELSE [list |-> x, ret |-> <<>>]

\* add_card that checks before it appends and leaves the deck as it was.
Deck_add_card_check_first(x, card) ==
    IF \E i \in 1..Len(x) : Card__eq__(x[i], card)
    THEN [list |-> x, exc |-> "DeckCheatingError"]
    ELSE [list |-> Append(x, card), exc |-> "none"]

\* @fair_deck def add_card(self, card): self._cards.append(card)
Deck_add_card(x, card) ==
    [list |-> Append(x, card), exc |-> fair_deck(NoneValue)]

\* def __len__(self)
Deck__len__(x) == Len(x)

\* __getitem__ that refuses a negative index.
Deck__getitem__no_negative(x, index) ==
    IF 0 <= index /\ index < Len(x)
    THEN [ret |-> <<x[index + 1]>>, exc |-> "none"]
    ELSE [ret |-> <<>>, exc |-> "IndexError"]

\* def __getitem__(self, index): return self._cards[index]
Deck__getitem__(x, index) ==
    LET pos == ListPos(x, index)
    IN IF pos = 0
       THEN [ret |-> <<>>, exc |-> "IndexError"]
       ELSE [ret |-> <<x[pos]>>, exc |-> "none"]

\* def __iter__(self): self._index = 0; return self
Deck__iter__(index) == 0

\* __next__ without self._index += 1.
Deck__next__no_advance(x, index) ==
    IF index >= Len(x)
    THEN [index |-> index, ret |-> <<>>, exc |-> "StopIteration"]
    ELSE [index |-> index, ret |-> <<x[index + 1]>>, exc |-> "none"]

\* def __next__(self)
Deck__next__(x, index) ==
    IF index >= Len(x)
    THEN [index |-> index, ret |-> <<>>, exc |-> "StopIteration"]
    ELSE [index |-> index + 1, ret |-> <<x[index + 1]>>, exc |-> "none"]

(***************************************************************************)
(* State.  heap holds the list objects: DeckList is the list __init__      *)
(* builds, CopyList the list the cards accessor returns.  _cards is the    *)
(* deck's reference to its list, _index its cursor.  held is the reference *)
(* the caller got from its last read of deck.cards ("none": no list).      *)
(* Observers: last is the last call (name, arguments, result, exception);  *)
(* cheated tells whether a call has raised DeckCheatingError; run is the   *)
(* current run of consecutive draw calls (the deck when it began, the      *)
(* cards it returned); loops are the for loops over the deck; cmp is a     *)
(* pair of cards with the comparisons evaluated on it.                     *)
(***************************************************************************)
VARIABLES heap, _cards, _index, held, last, cheated, run, loops, cmp

vars == <<heap, _cards, _index, held, last, cheated, run, loops, cmp>>

\* The content of the deck's list.
Deck == heap[_cards]

Call(op, idx, arg, ret, n, exc) ==
    [op |-> op, idx |-> idx, arg |-> arg, ret |-> ret, n |-> n, exc |-> exc]

LoopIds == {"outer", "inner"}

\* A for loop over the deck: where it is, the cards it was given, the deck's
\* content when it began, and whether no other loop has called the deck since
\* it began (alone).  A caller that changes the deck's content leaves its
\* loops (break): a running loop runs over the content it began with.
Loop(pc, seen, start, alone) ==
    [pc |-> pc, seen |-> seen, start |-> start, alone |-> alone]

IdleLoop == Loop("idle", <<>>, <<>>, FALSE)

\* A loop that ended is forgotten at the next call.
Forget(ls) == [l \in LoopIds |-> IF ls[l].pc = "done" THEN IdleLoop ELSE ls[l]]

\* A call changed the deck's content: the caller has left its loops.
Modified(ls) == [l \in LoopIds |-> IdleLoop]

\* Loop l called __iter__ or __next__: every other running loop is not alone.
Interfered(ls, l) ==
    [k \in LoopIds |->
        IF k # l /\ ls[k].pc = "running" THEN [ls[k] EXCEPT !.alone = FALSE]
        ELSE Forget(ls)[k]]

\* The cards a loop was given are recorded up to one more than it began with.
Seen(loop, ret) == IF Len(loop.seen) > Len(loop.start) THEN loop.seen ELSE loop.seen \o ret

\* Loops nest: the inner loop runs in the body of the outer loop, to its end.
\* The body runs once the outer loop has been given a card.
Nested(ls, l) ==
    IF l = "inner" THEN ls["outer"].pc = "running" /\ ls["outer"].seen # <<>>
    ELSE ls["inner"].pc # "running"

\* A caller drops the list it held when it makes its next call on the deck.
Drop(h) == [h EXCEPT ![CopyList] = <<>>]

NoRun(x) == [base |-> x, out |-> <<>>]

NoCmp == [a |-> Card(CLUBS, TWO), b |-> Card(CLUBS, TWO), done |-> {}, true |-> {}]

\* deck = Deck(shuffle)
NewDeck(shuffle) ==
    /\ heap \in {(DeckList :> x) @@ (CopyList :> <<>>) : x \in Deck__init__(shuffle)}
    /\ _cards = DeckList
    /\ _index = 0
    /\ held = "none"
    /\ last = Call("__init__", 0, <<>>, <<>>, IF shuffle THEN 1 ELSE 0, "none")
    /\ cheated = FALSE
    /\ run = NoRun(heap[DeckList])
    /\ loops = [l \in LoopIds |-> IdleLoop]

Init ==
    /\ \E shuffle \in BOOLEAN : NewDeck(shuffle)
    /\ cmp = NoCmp

\* snapshot = deck.cards
cards ==
    LET r == Deck_cards(heap, _cards)
    IN /\ heap' = IF r.exc = "none" THEN r.heap ELSE Drop(heap)
       /\ held' = IF r.exc = "none" THEN r.ref ELSE "none"
       /\ last' = Call("cards", 0, <<>>, <<>>, 0, r.exc)
       /\ cheated' = (cheated \/ r.exc = "DeckCheatingError")
       /\ run' = NoRun(heap'[_cards])
       /\ loops' = Forget(loops)
       /\ UNCHANGED <<_cards, _index, cmp>>

\* The caller changes the list it was just given: appends a card to it or
\* pops its front.
MutateHeld ==
    /\ held # "none"
    /\ last.op = "cards"
    /\ \/ \E c \in DeckCards :
            /\ Len(heap[held]) < MaxLen
            /\ heap' = [heap EXCEPT ![held] = Append(@, c)]
       \/ /\ heap[held] # <<>>
          /\ heap' = [heap EXCEPT ![held] = Tail(@)]
    /\ last' = Call("mutate_held", 0, <<>>, <<>>, 0, "none")
    /\ run' = NoRun(heap'[_cards])
    /\ loops' = IF heap'[_cards] = heap[_cards] THEN Forget(loops) ELSE Modified(loops)
    /\ UNCHANGED <<_cards, _index, held, cheated, cmp>>

\* deck.shuffle()
shuffle ==
    /\ \E x \in Deck_shuffle(heap[_cards]) : heap' = Drop([heap EXCEPT ![_cards] = x])
    /\ held' = "none"
    /\ last' = Call("shuffle", 0, <<>>, <<>>, 0, "none")
    /\ run' = NoRun(heap'[_cards])
    /\ loops' = Modified(loops)
    /\ UNCHANGED <<_cards, _index, cheated, cmp>>

\* deck.draw()
draw ==
    LET r == Deck_draw(heap[_cards])
    IN /\ heap' = Drop([heap EXCEPT ![_cards] = r.list])
       /\ held' = "none"
       /\ last' = Call("draw", 0, <<>>, r.ret, 0, "none")
       /\ run' = [run EXCEPT !.out = @ \o r.ret]
       /\ loops' = Modified(loops)
       /\ UNCHANGED <<_cards, _index, cheated, cmp>>

\* deck.add_card(card)
add_card(card) ==
    LET r == Deck_add_card(heap[_cards], card)
    IN /\ Len(heap[_cards]) < MaxLen
       /\ heap' = Drop([heap EXCEPT ![_cards] = r.list])
       /\ held' = "none"
       /\ last' = Call("add_card", 0, <<card>>, <<>>, 0, r.exc)
       /\ cheated' = (cheated \/ r.exc = "DeckCheatingError")
       /\ run' = NoRun(heap'[_cards])
       /\ loops' = Modified(loops)
       /\ UNCHANGED <<_cards, _index, cmp>>

\* len(deck)
len ==
    /\ heap' = Drop(heap)
    /\ held' = "none"
    /\ last' = Call("__len__", 0, <<>>, <<>>, Deck__len__(heap[_cards]), "none")
    /\ run' = NoRun(heap'[_cards])
    /\ loops' = Forget(loops)
    /\ UNCHANGED <<_cards, _index, cheated, cmp>>

\* deck[index]
getitem(index) ==
    LET r == Deck__getitem__(heap[_cards], index)
    IN /\ heap' = Drop(heap)
       /\ held' = "none"
       /\ last' = Call("__getitem__", index, <<>>, r.ret, 0, r.exc)
       /\ run' = NoRun(heap'[_cards])
       /\ loops' = Forget(loops)
       /\ UNCHANGED <<_cards, _index, cheated, cmp>>

\* for c in deck: the loop l begins, iter(deck).
LoopIter(l) ==
    /\ loops[l].pc # "running"
    /\ Nested(loops, l)
    /\ _index' = Deck__iter__(_index)
    /\ heap' = Drop(heap)
    /\ held' = "none"
    /\ last' = Call("__iter__", 0, <<>>, <<>>, 0, "none")
    /\ run' = NoRun(heap'[_cards])
    /\ loops' = [Interfered(loops, l) EXCEPT ![l] = Loop("running", <<>>, heap[_cards], TRUE)]
    /\ UNCHANGED <<_cards, cheated, cmp>>

\* The loop l asks for its next card, next(deck), and ends on StopIteration.
LoopNext(l) ==
    LET r == Deck__next__(heap[_cards], _index)
    IN /\ loops[l].pc = "running"
       /\ Nested(loops, l)
       /\ _index' = r.index
       /\ heap' = Drop(heap)
       /\ held' = "none"
       /\ last' = Call("__next__", 0, <<>>, r.ret, 0, r.exc)
       /\ run' = NoRun(heap'[_cards])
       /\ loops' = [Interfered(loops, l) EXCEPT
                      ![l] = [@ EXCEPT !.pc = IF r.exc = "none" THEN "running" ELSE "done",
                                       !.seen = Seen(loops[l], r.ret)]]
       /\ UNCHANGED <<_cards, cheated, cmp>>

\* The calls of a caller that draws, adds, shuffles, asks for the length and
\* indexes.
Next ==
    \/ shuffle
    \/ draw
    \/ \E card \in DeckCards : add_card(card)
    \/ len
    \/ \E index \in IndexArgs : getitem(index)

Spec == Init /\ [][Next]_vars

\* The calls of a caller that reads deck.cards, changes the list it was given,
\* and draws, adds and shuffles in between.
NextCards ==
    \/ cards
    \/ MutateHeld
    \/ shuffle
    \/ draw
    \/ \E card \in DeckCards : add_card(card)

SpecCards == Init /\ [][NextCards]_vars

\* The calls of a caller that runs loops over the deck, one inside the other,
\* asks for the length, and draws and adds in between.
NextIter ==
    \/ \E l \in LoopIds : LoopIter(l)
    \/ \E l \in LoopIds : LoopNext(l)
    \/ len
    \/ draw
    \/ \E card \in DeckCards : add_card(card)

SpecIter == Init /\ [][NextIter]_vars

(***************************************************************************)
(* Card comparisons: two cards, and the comparisons evaluated on them in   *)
(* both orders.                                                            *)
(***************************************************************************)
InitCard ==
    /\ NewDeck(FALSE)
    /\ \E a \in AllCards, b \in AllCards : cmp = [a |-> a, b |-> b, done |-> {}, true |-> {}]

Evaluated(op, ab, ba) ==
    /\ op \notin cmp.done
    /\ cmp' = [cmp EXCEPT !.done = @ \cup {op},
                          !.true = @ \cup (IF ab THEN {<<op, "a", "b">>} ELSE {})
                                     \cup (IF ba THEN {<<op, "b", "a">>} ELSE {})]
    /\ UNCHANGED <<heap, _cards, _index, held, last, cheated, run, loops>>

\* a == b, b == a
CardEq == Evaluated("==", Card__eq__(cmp.a, cmp.b), Card__eq__(cmp.b, cmp.a))

\* a < b, b < a
CardLt == Evaluated("<", Card__lt__(cmp.a, cmp.b), Card__lt__(cmp.b, cmp.a))

\* a > b, b > a
CardGt == Evaluated(">", Card__gt__(cmp.a, cmp.b), Card__gt__(cmp.b, cmp.a))

NextCard ==
    \/ CardEq
    \/ CardLt
    \/ CardGt

SpecCard == InitCard /\ [][NextCard]_vars

(***************************************************************************)
(* The claims.                                                             *)
(***************************************************************************)
SameCard(c, d) == c._suit = d._suit /\ c._rank = d._rank
Contains(x, c) == \E i \in 1..Len(x) : SameCard(x[i], c)
HasDuplicate(x) == \E i, j \in 1..Len(x) : i < j /\ SameCard(x[i], x[j])

\* C1: add_card(c) with a card c equal to one already in the deck fails with
\* DeckCheatingError.
C1_AddPresentCardRaises ==
    [][(last'.op = "add_card" /\ Contains(Deck, last'.arg[1]))
          => last'.exc = "DeckCheatingError"]_vars

\* C2: as long as no call has failed with DeckCheatingError, the deck holds
\* no two equal cards.
C2_NoDuplicates == ~cheated => ~HasDuplicate(Deck)

\* C3: reading deck.cards fails with DeckCheatingError exactly when the deck
\* holds two equal cards, and otherwise gives a list with the deck's content in
\* order; the read leaves the deck unchanged, and so does a later change of
\* the list it gave.
C3_CardsAccessor ==
    [][/\ last'.op = "cards" =>
            /\ (last'.exc = "DeckCheatingError") <=> HasDuplicate(Deck)
            /\ last'.exc = "none" => (held' # "none" /\ heap'[held'] = Deck)
            /\ last'.exc # "none" => held' = "none"
            /\ Deck' = Deck /\ _index' = _index
       /\ last'.op = "mutate_held" =>
            /\ heap'[held'] # heap[held]
            /\ Deck' = Deck /\ _index' = _index]_vars

C3_Witness ==
    /\ last.op = "cards"
    /\ last.exc = "DeckCheatingError"
    /\ HasDuplicate(Deck)
    /\ Len(Deck) = Len(StandardDeck)

\* C4: draw returns the front card and leaves the other cards in their order,
\* or returns None on an empty deck and leaves it empty: the cards a run of
\* consecutive draws has returned, followed by the cards left, are the deck
\* the run began with, and a draw returns None only with that deck used up.
C4_DrawIsFifo ==
    /\ run.base = run.out \o Deck
    /\ last.op = "draw" =>
          /\ last.exc = "none"
          /\ IF last.ret = <<>>
             THEN Deck = <<>> /\ run.out = run.base
             ELSE run.out # <<>> /\ last.ret = <<run.out[Len(run.out)]>>

C4_Witness ==
    /\ last.op = "draw"
    /\ last.ret = <<>>
    /\ run.out = StandardDeck
    /\ run.base = StandardDeck

\* C5: after add_card(c), whether or not it raised, the deck is its previous
\* content followed by c, one card longer.
C5_AddCardAppends ==
    [][last'.op = "add_card" =>
          /\ Deck' = Deck \o last'.arg
          /\ Deck__len__(Deck') = Deck__len__(Deck) + 1]_vars

C5_Witness ==
    /\ last.op = "add_card"
    /\ Len(Deck) = Len(StandardDeck) + 1
    /\ Contains(SubSeq(Deck, 1, Len(Deck) - 1), Deck[Len(Deck)])
    /\ last.arg = <<Deck[Len(Deck)]>>

\* C6: a new deck holds one card for each pair of a suit and a rank and no
\* other card; built with shuffle false its cards are in suit-major order,
\* the ranks ascending within a suit; construction raises nothing.
Position(x, c) == {i \in 1..Len(x) : SameCard(x[i], c)}

C6_NewDeck ==
    last.op = "__init__" =>
        /\ last.exc = "none"
        /\ Len(Deck) = Len(DeckSuits) * Len(DeckRanks)
        /\ \A s \in Range(DeckSuits), r \in Range(DeckRanks) :
              Cardinality(Position(Deck, Card(s, r))) = 1
        /\ last.n = 0 =>
              \A i, j \in 1..Len(Deck) :
                  i < j => \/ Deck[i]._suit < Deck[j]._suit
                           \/ Deck[i]._suit = Deck[j]._suit /\ Deck[i]._rank < Deck[j]._rank

C6_Witness ==
    /\ last.op = "__init__"
    /\ last.n = 1
    /\ Deck[1] = Card(DIAMONDS, THREE)
    /\ Deck[Len(Deck)] = Card(CLUBS, TWO)

\* C7 as stated: deck[i] returns the card at position i and leaves the deck
\* unchanged when 0 <= i < len(deck), and fails with IndexError for every other
\* index.
C7_IndexedAccess ==
    [][last'.op = "__getitem__" =>
          /\ Deck' = Deck /\ _index' = _index
          /\ IF 0 <= last'.idx /\ last'.idx < Len(Deck)
             THEN last'.exc = "none" /\ last'.ret = <<Deck[last'.idx + 1]>>
             ELSE last'.exc = "IndexError"]_vars

\* C7 amended: deck[i] returns the card at position i when 0 <= i < len(deck)
\* and the card at position len(deck) + i when -len(deck) <= i < 0, and leaves
\* the deck unchanged; for every other index (i >= len(deck), i < -len(deck))
\* it fails with IndexError.
C7_IndexedAccessAmended ==
    [][last'.op = "__getitem__" =>
          /\ Deck' = Deck /\ _index' = _index
          /\ IF 0 <= last'.idx /\ last'.idx < Len(Deck)
             THEN last'.exc = "none" /\ last'.ret = <<Deck[last'.idx + 1]>>
             ELSE IF 0 - Len(Deck) <= last'.idx /\ last'.idx < 0
             THEN last'.exc = "none" /\ last'.ret = <<Deck[Len(Deck) + last'.idx + 1]>>
             ELSE last'.exc = "IndexError" /\ last'.ret = <<>>]_vars

C7_Witness ==
    /\ last.op = "__getitem__"
    /\ last.idx = 0 - 1
    /\ last.exc = "none"
    /\ Len(Deck) = Len(StandardDeck)
    /\ last.ret = <<Deck[Len(Deck)]>>

Holds(op, x, y) == <<op, x, y>> \in cmp.true
LexLess(c, d) == c._rank < d._rank \/ (c._rank = d._rank /\ c._suit < d._suit)
One(p, q, r) == (p /\ ~q /\ ~r) \/ (~p /\ q /\ ~r) \/ (~p /\ ~q /\ r)

C9_CardOrder ==
    /\ "<" \in cmp.done =>
          /\ Holds("<", "a", "b") <=> LexLess(cmp.a, cmp.b)
          /\ Holds("<", "b", "a") <=> LexLess(cmp.b, cmp.a)
    /\ "==" \in cmp.done =>
          /\ Holds("==", "a", "b") <=> (cmp.a._suit = cmp.b._suit /\ cmp.a._rank = cmp.b._rank)
          /\ Holds("==", "b", "a") <=> Holds("==", "a", "b")
    /\ {"<", ">"} \subseteq cmp.done =>
          /\ Holds(">", "a", "b") <=> Holds("<", "b", "a")
          /\ Holds(">", "b", "a") <=> Holds("<", "a", "b")
    /\ cmp.done = {"<", ">", "=="} =>
          /\ One(Holds("<", "a", "b"), Holds("==", "a", "b"), Holds(">", "a", "b"))
          /\ One(Holds("<", "b", "a"), Holds("==", "b", "a"), Holds(">", "b", "a"))

C9_Witness ==
    /\ cmp.done = {"<", ">", "=="}
    /\ cmp.a = Card(HEARTS, TWO)
    /\ cmp.b = Card(CLUBS, THREE)
    /\ Holds("<", "a", "b")
    /\ ~Holds(">", "a", "b")

\* C10: every loop over the deck has a position of its own: a loop is given
\* the cards of the deck it began with from front to back, each once, also
\* when another loop over the same deck begins and runs meanwhile.
C10_LoopsIndependent ==
    \A l \in LoopIds :
        loops[l].pc \in {"running", "done"} =>
            /\ Len(loops[l].seen) <= Len(loops[l].start)
            /\ loops[l].seen = SubSeq(loops[l].start, 1, Len(loops[l].seen))
            /\ loops[l].pc = "done" => loops[l].seen = loops[l].start

====
